---- MODULE Spec2Model ----
(***************************************************************************)
(* A model of the wallet synchronisation engine of cointracker_app.py:     *)
(* the store (Wallet, SyncRun and Transaction rows), the retrying fetcher  *)
(* _request_with_retry and the Celery task sync_wallet, one action per     *)
(* store operation of the task so that invocations interleave where the    *)
(* code lets them.                                                         *)
(***************************************************************************)
EXTENDS Integers, Sequences, FiniteSets, TLC

\* ------------------------------------------------------------ constants
PAGE_SIZE == 100
MAX_RETRIES == 5
RATE_LIMIT_SLEEP == 1
\* str(exc)[:250]
ERROR_MESSAGE_MAX == 250
\* len("unreachable retry loop")
UNREACHABLE_MESSAGE_LEN == 22

\* --------------------------------------------------------------- bounds
\* Addresses that can be added as wallets.
NumWallets == 1
\* sync_wallet invocations in one behaviour.
MaxTasks == 2
\* Invocations a worker pool runs at the same time.
MaxConcurrent == 2
\* Hashes of a last, short page.
ShortLen == 3
\* Balances the upstream reports are 1..MaxBalance.
MaxBalance == 2

None == -1

Tasks == 1..MaxTasks
Addresses == 1..NumWallets
Balances == 1..MaxBalance
\* Lengths of str(exc) for the exceptions a request or the store raises.
ExcLens == {40, 300}
\* Values of the Retry-After header of a 429 (absent: RATE_LIMIT_SLEEP).
RetryAfters == {RATE_LIMIT_SLEEP, 2}

\* The upstream transaction list of an address is len hashes, the hash at
\* (1-based) position p being ((p - 1) % period) + 1: all distinct when
\* period >= len, repeated within a page or across pages otherwise.
UpstreamShapes ==
    {[len |-> 0, period |-> 2 * PAGE_SIZE]} \cup
    {s \in [len : {ShortLen, PAGE_SIZE, PAGE_SIZE + ShortLen},
             period : {2, PAGE_SIZE, 2 * PAGE_SIZE}] :
        s.period < s.len \/ s.period = 2 * PAGE_SIZE}

VARIABLES
    wallets,        \* table wallet: row id = index
    syncruns,       \* table sync_run: row id = index
    transactions,   \* table transaction: row id = index
    task,           \* the sync_wallet invocations: locals and session
    upstream,       \* the indexer's data per address (unchanged in a behaviour)
    call            \* a call of _request_with_retry taken on its own

vars == <<wallets, syncruns, transactions, task, upstream, call>>

\* ---------------------------------------------------------------- rows
Wallet(address) ==
    [address |-> address, balance_sat |-> 0, last_synced_at |-> FALSE]

Transaction(wallet_id, tx_hash) ==
    [wallet_id |-> wallet_id, tx_hash |-> tx_hash]

SyncRun(wallet_id) ==
    [wallet_id |-> wallet_id, status |-> "in_progress", current_offset |-> 0,
     ended_at |-> FALSE, error_message |-> None, is_latest |-> TRUE]

\* An invocation that has not been dispatched.
IdleTask ==
    [pc |-> "idle", wallet_id |-> 0, run |-> 0, prev |-> 0, offset |-> 0,
     gets |-> 0, fails |-> 0,
     i |-> 0, pending |-> <<>>, pbal |-> None, wbal |-> None,
     lastBal |-> None, firstFetch |-> None, excLen |-> 0,
     exhausted |-> FALSE, killOffset |-> None, payload |-> "page"]

\* An invocation that has ended (returned, raised or was killed): its
\* session and locals are gone.
Ended(tk, pc) ==
    [IdleTask EXCEPT !.pc = pc, !.wallet_id = tk.wallet_id, !.run = tk.run,
                     !.firstFetch = tk.firstFetch,
                     !.exhausted = tk.exhausted, !.payload = tk.payload]

RunningPcs == {"create", "fetch", "hash", "commit", "complete", "except"}

Running(t) == task[t].pc \in RunningPcs

NumRunning == Cardinality({t \in Tasks : Running(t)})

\* ------------------------------------------------------------- upstream
Min(a, b) == IF a < b THEN a ELSE b

UpstreamHash(address, p) == ((p - 1) % upstream[address].period) + 1

\* entry["transactions"] for ?limit=PAGE_SIZE&offset=offset
Page(address, offset) ==
    LET n == upstream[address].len
        k == IF offset >= n THEN 0 ELSE Min(PAGE_SIZE, n - offset)
    IN [j \in 1..k |-> UpstreamHash(address, offset + j)]

\* ---------------------------------------------------------------- Init
\* No call of _request_with_retry is looked at on its own.
NoCall ==
    [state |-> "none", script |-> <<>>, sleep_for |-> 0, n |-> 0,
     result |-> [raised |-> FALSE, excLen |-> 0, gets |-> 0, fails |-> 0,
                 sleeps |-> <<>>, saw429 |-> FALSE]]

Init ==
    /\ wallets = <<>>
    /\ syncruns = <<>>
    /\ transactions = <<>>
    /\ task = [t \in Tasks |-> IdleTask]
    /\ upstream \in [Addresses -> UpstreamShapes]
    /\ call = NoCall

\* The next free invocation slot.
FreeSlot(t) ==
    /\ task[t].pc = "idle"
    /\ \A u \in Tasks : u < t => task[u].pc # "idle"

\* POST /wallets/add with a valid address that is not yet stored.
add_wallet(address, t) ==
    /\ FreeSlot(t)
    /\ \A w \in 1..Len(wallets) : wallets[w].address # address
    /\ wallets' = Append(wallets, Wallet(address))
    /\ task' = [task EXCEPT ![t] =
                    [IdleTask EXCEPT !.pc = "queued",
                                     !.wallet_id = Len(wallets) + 1]]
    /\ UNCHANGED <<syncruns, transactions, upstream, call>>

\* The task queue delivers sync_wallet(wallet_id) once more (a re-sync, or
\* a redelivery of an at-least-once queue).
Dispatch(t, wallet_id) ==
    /\ FreeSlot(t)
    /\ task' = [task EXCEPT ![t] =
                    [IdleTask EXCEPT !.pc = "queued", !.wallet_id = wallet_id]]
    /\ UNCHANGED <<wallets, syncruns, transactions, upstream, call>>

\* --------------------------------------------------------- sync_wallet
\* SyncRun.query.filter_by(wallet_id=wallet.id, is_latest=True)
LatestRuns(wallet_id) ==
    {r \in 1..Len(syncruns) :
        syncruns[r].wallet_id = wallet_id /\ syncruns[r].is_latest}

\* A sync that starts over: offset = 0
StartOffset_FromZero(run) == 0

\* offset = sync_run.current_offset or 0
StartOffset(run) == syncruns[run].current_offset

\* Every run that did not complete is resumed.
Resumable_NotCompleted(run) == syncruns[run].status # "completed"

\* current_sync.status == "in_progress"
Resumable(run) == syncruns[run].status = "in_progress"

\* A missing wallet is reported: raise instead of return.
Absent_Raises(tk) == Ended(tk, "raised")

\* if not wallet: return
Absent(tk) == Ended(tk, "done")

\* A worker takes the oldest queued invocation: the wallet and its latest
\* run are read. limit is the number of invocations the workers run at the
\* same time.
Lookup(t, limit) ==
    LET tk == task[t] IN
    /\ tk.pc = "queued"
    /\ \A u \in Tasks : u < t => task[u].pc # "queued"
    /\ NumRunning < limit
    /\ IF tk.wallet_id \notin 1..Len(wallets)
       THEN task' = [task EXCEPT ![t] = Absent(tk)]
       ELSE LET loaded == wallets[tk.wallet_id].balance_sat IN
            IF LatestRuns(tk.wallet_id) = {}
            THEN task' = [task EXCEPT ![t] =
                     [tk EXCEPT !.pc = "create", !.prev = 0, !.wbal = loaded]]
            ELSE \E r \in LatestRuns(tk.wallet_id) :
                   IF Resumable(r)
                   THEN task' = [task EXCEPT ![t] =
                            [tk EXCEPT !.pc = "fetch", !.run = r,
                                       !.offset = StartOffset(r),
                                       !.wbal = loaded]]
                   ELSE task' = [task EXCEPT ![t] =
                            [tk EXCEPT !.pc = "create", !.prev = r,
                                       !.wbal = loaded]]
    /\ UNCHANGED <<wallets, syncruns, transactions, upstream, call>>

\* The run read before keeps its is_latest flag.
Superseded_Kept(prev) == syncruns

\* The rows of sync_run after the commit that creates a run: the run read
\* before (if any) is no longer the latest.
Superseded(prev) ==
    IF prev = 0 THEN syncruns
    ELSE [syncruns EXCEPT ![prev].is_latest = FALSE]

\* No resumable run: a new SyncRun is added and committed.
Create(t) ==
    LET tk == task[t] IN
    /\ tk.pc = "create"
    /\ syncruns' = Append(Superseded(tk.prev), SyncRun(tk.wallet_id))
    /\ task' = [task EXCEPT ![t] =
                    [tk EXCEPT !.pc = "fetch", !.run = Len(syncruns) + 1,
                               !.offset = 0, !.wbal = None]]
    /\ UNCHANGED <<wallets, transactions, upstream, call>>

\* ------------------------------------------------- _request_with_retry
\* What the server answers to the GETs of one call, in order: a 200 with a
\* page ("ok"), a 429 ("429") or a failure that requests reports as a
\* RequestException ("fail"). A script ends with its first "ok"; one more
\* answer than MAX_RETRIES is scripted, so a call that asked once too often
\* would be seen.
MaxResponses == MAX_RETRIES + 1

Scripts ==
    UNION {{r \in [1..k -> {"ok", "429", "fail"}] :
               /\ \A j \in 1..(k - 1) : r[j] # "ok"
               /\ k < MaxResponses => r[k] = "ok"} : k \in 1..MaxResponses}

\* An off-by-one loop: while attempt <= MAX_RETRIES
InRetryLoop_OneMore(attempt) == attempt <= MAX_RETRIES

\* while attempt < MAX_RETRIES
InRetryLoop(attempt) == attempt < MAX_RETRIES

\* backoff = 2**attempt
Backoff(attempt) == 2 ^ attempt

\* The call's result: whether it raised (and the length of str(exc)),
\* the GETs it issued, how many of them did not succeed, the seconds of
\* each sleep in order, and whether a 429 was among the answers.
Returned(gets, fails, sleeps, saw429) ==
    [raised |-> FALSE, excLen |-> 0, gets |-> gets, fails |-> fails,
     sleeps |-> sleeps, saw429 |-> saw429]

Raised(n, gets, fails, sleeps, saw429) ==
    [raised |-> TRUE, excLen |-> n, gets |-> gets, fails |-> fails,
     sleeps |-> sleeps, saw429 |-> saw429]

\* The loop of _request_with_retry from attempt on, after gets GETs and
\* the sleeps slept so far: sleep_for is the Retry-After of the 429s, n
\* the length of the message of the RequestException.
RECURSIVE RetryLoop(_, _, _, _, _, _, _)
RetryLoop(script, sleep_for, n, attempt, gets, sleeps, saw429) ==
    IF ~InRetryLoop(attempt)
    THEN Raised(UNREACHABLE_MESSAGE_LEN, gets, gets, sleeps, saw429)
    ELSE LET resp == script[gets + 1] IN
         IF resp = "429"
         THEN RetryLoop(script, sleep_for, n, attempt + 1, gets + 1,
                        Append(sleeps, sleep_for), TRUE)
         ELSE IF resp = "fail"
         THEN IF attempt + 1 >= MAX_RETRIES
              THEN Raised(n, gets + 1, gets + 1,
                          Append(sleeps, Backoff(attempt + 1)), saw429)
              ELSE RetryLoop(script, sleep_for, n, attempt + 1, gets + 1,
                             Append(sleeps, Backoff(attempt + 1)), saw429)
         ELSE Returned(gets + 1, gets, sleeps, saw429)

_request_with_retry(script, sleep_for, n) ==
    RetryLoop(script, sleep_for, n, 0, 0, <<>>, FALSE)

\* The results a call can have.
CallResults ==
    {_request_with_retry(script, sleep_for, n) :
        script \in Scripts, sleep_for \in RetryAfters, n \in ExcLens}

\* The exception exc of message length n leaves the try block.
Raise(tk, n, exhausted) ==
    [tk EXCEPT !.pc = "except", !.excLen = n, !.exhausted = exhausted,
               !.i = 0]

\* The page's balance is not set on the wallet.
Dirty_NotSet(tk, balance) == tk.pbal

\* The balance the session holds as a pending change after
\* wallet.balance_sat = balance (no change: nothing to write).
Dirty(tk, balance) == IF balance = tk.wbal THEN tk.pbal ELSE balance

\* One turn of the page loop up to the hash loop: the wallet row is read
\* again if the last commit expired it, the page at the local offset is
\* requested (res is the call's result), and either the call raises or
\* the page's balance is set on the wallet and its hashes are taken.
Fetch(t, res, balance) ==
    LET tk == task[t]
        page == Page(wallets[tk.wallet_id].address, tk.offset)
        g == [tk EXCEPT !.gets = res.gets, !.fails = res.fails,
                        !.wbal = IF tk.wbal = None
                                 THEN wallets[tk.wallet_id].balance_sat
                                 ELSE tk.wbal,
                        !.firstFetch = IF tk.firstFetch = None
                                       THEN tk.offset ELSE tk.firstFetch]
    IN
    /\ tk.pc = "fetch"
    /\ task' = [task EXCEPT ![t] =
                    IF res.raised
                    THEN Raise(g, res.excLen, TRUE)
                    ELSE [g EXCEPT !.pc = IF Len(page) = 0
                                          THEN "complete" ELSE "hash",
                                   !.i = 1,
                                   !.pbal = Dirty(g, balance),
                                   !.lastBal = balance]]
    /\ UNCHANGED <<wallets, syncruns, transactions, upstream, call>>

\* The 200 answers that are not a page: a body that is not JSON, a JSON
\* body without data[address], without address.balance or without
\* transactions.
PayloadKinds == {"bad_json", "no_data", "no_balance", "no_transactions"}

\* address_meta.get("balance", wallet.balance_sat)
EntryBalance(kind, balance, loaded) ==
    IF kind \in {"no_data", "no_balance"} THEN loaded ELSE balance

\* entry.get("transactions", [])
EntryTransactions(kind, page) ==
    IF kind \in {"no_data", "no_transactions"} THEN <<>> ELSE page

\* One turn of the page loop up to the hash loop when the first GET is
\* answered 200 with a body that is not a page. resp.json() raises on a
\* body that is not JSON (where that exception is a RequestException the
\* answer is a "fail" of Scripts); n is the length of its message.
FetchMalformed(t, kind, balance, n) ==
    LET tk == task[t]
        loaded == IF tk.wbal = None
                  THEN wallets[tk.wallet_id].balance_sat ELSE tk.wbal
        g == [tk EXCEPT !.gets = 1, !.fails = 0, !.wbal = loaded,
                        !.payload = kind,
                        !.firstFetch = IF tk.firstFetch = None
                                       THEN tk.offset ELSE tk.firstFetch]
        tx_hashes == EntryTransactions(
                         kind, Page(wallets[tk.wallet_id].address, tk.offset))
    IN
    /\ tk.pc = "fetch"
    /\ task' = [task EXCEPT ![t] =
                    IF kind = "bad_json"
                    THEN Raise(g, n, FALSE)
                    ELSE [g EXCEPT
                             !.pc = IF Len(tx_hashes) = 0
                                    THEN "complete" ELSE "hash",
                             !.i = 1,
                             !.pbal = Dirty(g, EntryBalance(kind, balance,
                                                            loaded)),
                             !.lastBal = EntryBalance(kind, balance, loaded)]]
    /\ UNCHANGED <<wallets, syncruns, transactions, upstream, call>>

\* _request_with_retry on its own: the call drawn at the start is made.
Call ==
    /\ call.state = "pending"
    /\ call' = [call EXCEPT
                   !.state = "done",
                   !.result = _request_with_retry(call.script, call.sleep_for,
                                                  call.n)]
    /\ UNCHANGED <<wallets, syncruns, transactions, task, upstream>>

\* ------------------------------------------------ sync_wallet: the page
\* A session without autoflush: only the committed rows are seen.
TxExists_NoAutoflush(wallet_id, txh, pending) ==
    \E k \in 1..Len(transactions) :
        /\ transactions[k].wallet_id = wallet_id
        /\ transactions[k].tx_hash = txh

\* Transaction.query.filter_by(wallet_id=wallet.id, tx_hash=txh).first():
\* the committed rows and, by autoflush, the rows this session has added.
TxExists(wallet_id, txh, pending) ==
    \/ \E k \in 1..Len(transactions) :
          /\ transactions[k].wallet_id = wallet_id
          /\ transactions[k].tx_hash = txh
    \/ \E k \in 1..Len(pending) : pending[k] = txh

\* The offset is not advanced.
NextOffset_Stuck(offset) == offset

\* offset += PAGE_SIZE
NextOffset(offset) == offset + PAGE_SIZE

\* The loop never stops on a short page.
MoreData_Always(n) == TRUE

\* more_data after a page of n hashes has been committed
MoreData(n) == ~(n < PAGE_SIZE)

\* A commit that does not write the session's added rows.
FlushTransactions_Lost(tk) == transactions

\* The rows of transaction after a commit of the session of tk.
FlushTransactions(tk) ==
    transactions \o
        [k \in 1..Len(tk.pending) |-> Transaction(tk.wallet_id, tk.pending[k])]

\* The rows of wallet after a commit of the session of tk.
FlushWallets(tk) ==
    IF tk.pbal = None THEN wallets
    ELSE [wallets EXCEPT ![tk.wallet_id].balance_sat = tk.pbal]

\* One turn of "for txh in tx_hashes".
HashStep(t) ==
    LET tk == task[t]
        page == Page(wallets[tk.wallet_id].address, tk.offset)
        txh == page[tk.i]
    IN
    /\ tk.pc = "hash"
    /\ task' = [task EXCEPT ![t] =
                    [tk EXCEPT !.pending =
                                   IF TxExists(tk.wallet_id, txh, tk.pending)
                                   THEN tk.pending
                                   ELSE Append(tk.pending, txh),
                               !.i = tk.i + 1,
                               !.gets = 0, !.fails = 0,
                               !.pc = IF tk.i = Len(page)
                                      THEN "commit" ELSE "hash"]]
    /\ UNCHANGED <<wallets, syncruns, transactions, upstream, call>>

\* The checkpoint: the offset is advanced and the page is committed.
Commit(t) ==
    LET tk == task[t]
        page == Page(wallets[tk.wallet_id].address, tk.offset)
    IN
    /\ tk.pc = "commit"
    /\ transactions' = FlushTransactions(tk)
    /\ wallets' = FlushWallets(tk)
    /\ syncruns' = [syncruns EXCEPT
                        ![tk.run].current_offset = NextOffset(tk.offset)]
    /\ task' = [task EXCEPT ![t] =
                    [tk EXCEPT !.offset = NextOffset(tk.offset),
                               !.pending = <<>>, !.pbal = None,
                               !.wbal = None, !.i = 0,
                               !.pc = IF MoreData(Len(page))
                                      THEN "fetch" ELSE "complete"]]
    /\ UNCHANGED <<upstream, call>>

\* The status is set without the end time.
Completed_NoEndedAt(run) == [run EXCEPT !.status = "completed"]

\* sync_run.status = "completed"; sync_run.ended_at = datetime.utcnow()
Completed(run) == [run EXCEPT !.status = "completed", !.ended_at = TRUE]

\* The loop has ended: the run is completed.
Complete(t) ==
    LET tk == task[t] IN
    /\ tk.pc = "complete"
    /\ transactions' = FlushTransactions(tk)
    /\ wallets' = [FlushWallets(tk) EXCEPT
                       ![tk.wallet_id].last_synced_at = TRUE]
    /\ syncruns' = [syncruns EXCEPT ![tk.run] = Completed(@)]
    /\ task' = [task EXCEPT ![t] = Ended(tk, "done")]
    /\ UNCHANGED <<upstream, call>>

\* The store raises inside the try block (the flush or the commit of
\* line 247 or 256 fails) with a message of n characters.
DbFail(t, n) ==
    LET tk == task[t] IN
    /\ tk.pc \in {"commit", "complete"}
    /\ task' = [task EXCEPT ![t] =
                    Raise([tk EXCEPT !.gets = 0, !.fails = 0], n, FALSE)]
    /\ UNCHANGED <<wallets, syncruns, transactions, upstream, call>>

\* No rollback before the run is marked.
Rollback_Skipped(tk) == tk

\* db.session.rollback()
Rollback(tk) == [tk EXCEPT !.pending = <<>>, !.pbal = None]

\* The message is stored whole.
ErrorMessage_Whole(n) == n

\* sync_run.error_message = str(exc)[:250]
ErrorMessage(n) == Min(n, ERROR_MESSAGE_MAX)

\* The except block: roll back, mark the run error, commit, re-raise.
Except(t) ==
    LET tk == task[t] IN
    /\ tk.pc = "except"
    /\ transactions' = FlushTransactions(Rollback(tk))
    /\ wallets' = FlushWallets(Rollback(tk))
    /\ syncruns' = [syncruns EXCEPT
                        ![tk.run].status = "error",
                        ![tk.run].error_message = ErrorMessage(tk.excLen),
                        ![tk.run].ended_at = TRUE]
    /\ task' = [task EXCEPT ![t] = Ended(tk, "raised")]
    /\ UNCHANGED <<upstream, call>>

\* The worker process is terminated: what the session had not committed
\* is lost, what it had committed stays.
Crash(t) ==
    LET tk == task[t] IN
    /\ Running(t)
    /\ task' = [task EXCEPT ![t] =
                    [Ended(tk, "killed") EXCEPT
                         !.killOffset = IF tk.run = 0 THEN None
                                        ELSE syncruns[tk.run].current_offset]]
    /\ UNCHANGED <<wallets, syncruns, transactions, upstream, call>>

\* -------------------------------------------------------- specifications
\* Every step but the one that starts an invocation.
Step ==
    \/ \E a \in Addresses, t \in Tasks : add_wallet(a, t)
    \/ \E t \in Tasks, w \in 1..(NumWallets + 1) : Dispatch(t, w)
    \/ \E t \in Tasks : Create(t)
    \/ \E t \in Tasks, res \in CallResults, b \in Balances : Fetch(t, res, b)
    \/ \E t \in Tasks : HashStep(t)
    \/ \E t \in Tasks : Commit(t)
    \/ \E t \in Tasks : Complete(t)
    \/ \E t \in Tasks, n \in ExcLens : DbFail(t, n)
    \/ \E t \in Tasks : Except(t)
    \/ \E t \in Tasks : Crash(t)

\* Invocations of one wallet may overlap (several workers, at-least-once
\* delivery, a re-sync while a sync runs).
Next == Step \/ \E t \in Tasks : Lookup(t, MaxConcurrent)

\* Overlapping invocations are explored on upstream lists of one page.
InitOverlap == Init /\ \A a \in Addresses : upstream[a].len <= ShortLen

Spec == InitOverlap /\ [][Next]_vars

\* One invocation at a time: the next starts when the one before it has
\* returned, raised or been killed.
NextSeq == Step \/ \E t \in Tasks : Lookup(t, 1)

SpecSeq == Init /\ [][NextSeq]_vars

\* _request_with_retry as a function of what the server answers.
InitFetch ==
    /\ wallets = <<>>
    /\ syncruns = <<>>
    /\ transactions = <<>>
    /\ task = [t \in Tasks |-> IdleTask]
    /\ upstream = [a \in Addresses |-> [len |-> 0, period |-> 2 * PAGE_SIZE]]
    /\ \E script \in Scripts, sleep_for \in RetryAfters, n \in ExcLens :
          call = [NoCall EXCEPT !.state = "pending", !.script = script,
                                !.sleep_for = sleep_for, !.n = n]

SpecFetch == InitFetch /\ [][Call]_vars

\* The steps of invocation t when every call of _request_with_retry
\* returns a page (after retries or not) and neither the store nor the
\* worker fails.
Run(t) ==
    \/ Create(t)
    \/ \E res \in CallResults, b \in Balances : ~res.raised /\ Fetch(t, res, b)
    \/ HashStep(t)
    \/ Commit(t)
    \/ Complete(t)

NextLive ==
    \/ \E a \in Addresses, t \in Tasks : add_wallet(a, t)
    \/ \E t \in Tasks, w \in 1..(NumWallets + 1) : Dispatch(t, w)
    \/ \E t \in Tasks : Lookup(t, 1)
    \/ \E t \in Tasks : Run(t)

\* A worker that runs an invocation keeps running it.
SpecLive ==
    Init /\ [][NextLive]_vars /\ \A t \in Tasks : WF_vars(Run(t))

\* One invocation at a time, the upstream also answering with bodies that
\* are not a page.
NextPayload ==
    \/ NextSeq
    \/ \E t \in Tasks, kind \in PayloadKinds, b \in Balances, n \in ExcLens :
          FetchMalformed(t, kind, b, n)

SpecPayload == Init /\ [][NextPayload]_vars

\* ------------------------------------------------------------ the claims
\* The rows of transaction of a wallet, in row order.
WalletTransactions(w) ==
    SelectSeq(transactions, LAMBDA row : row.wallet_id = w)

\* The hashes a wallet has rows for.
TxHashes(w) ==
    {transactions[k].tx_hash :
        k \in {j \in 1..Len(transactions) : transactions[j].wallet_id = w}}

\* The hashes of the upstream list of an address.
UpstreamHashes(a) == {UpstreamHash(a, p) : p \in 1..upstream[a].len}

\* The runs of a wallet with a given status.
RunsWithStatus(w, status) ==
    {r \in 1..Len(syncruns) :
        syncruns[r].wallet_id = w /\ syncruns[r].status = status}

\* The rows of a wallet for a hash.
RowsFor(w, h) ==
    {k \in 1..Len(transactions) :
        transactions[k].wallet_id = w /\ transactions[k].tx_hash = h}

\* The stored status of the run an invocation works on.
RunStatus(t) ==
    IF task[t].run = 0 THEN "none" ELSE syncruns[task[t].run].status

\* C1: in every reachable state, under any interleaving of sync_wallet
\* invocations, each wallet has at most one SyncRun whose status is
\* in_progress.
C1_AtMostOneInProgress ==
    \A w \in 1..Len(wallets) :
        Cardinality(RunsWithStatus(w, "in_progress")) <= 1

\* C2: in every reachable state no two Transaction rows share the same
\* (wallet_id, tx_hash), also when invocations for one wallet overlap.
C2_NoDuplicateTransactions ==
    \A j, k \in 1..Len(transactions) :
        j # k => transactions[j] # transactions[k]

\* C3: with one invocation at a time, once a wallet has a completed run,
\* every upstream hash has exactly one row and no later step (a second
\* sync against the same upstream data) adds or changes a row of the
\* wallet, also when a hash is repeated within or across pages.
C3_SecondSyncAddsNothing ==
    [][\A w \in 1..Len(wallets) :
          /\ (RunsWithStatus(w, "completed") # {})' =>
                (\A h \in UpstreamHashes(wallets[w].address) :
                    Cardinality(RowsFor(w, h)) = 1)'
          /\ RunsWithStatus(w, "completed") # {} =>
                /\ WalletTransactions(w)' = WalletTransactions(w)
                /\ (\A h \in TxHashes(w) : Cardinality(RowsFor(w, h)) = 1)'
      ]_vars

\* Two runs of one wallet have completed over a list with a repeated hash.
C3_Witness ==
    \E w \in 1..Len(wallets) :
        /\ Cardinality(RunsWithStatus(w, "completed")) >= 2
        /\ upstream[wallets[w].address].len > PAGE_SIZE
        /\ upstream[wallets[w].address].period = PAGE_SIZE
        /\ Len(WalletTransactions(w)) = PAGE_SIZE

\* u is the invocation for the wallet of t that starts next after t.
NextInvocation(t, u) ==
    /\ t < u
    /\ task[u].wallet_id = task[t].wallet_id
    /\ \A v \in Tasks : t < v /\ v < u => task[v].wallet_id # task[t].wallet_id

\* C4: with one invocation at a time, if an invocation is killed with its
\* run in_progress at committed offset O, the next invocation for the
\* wallet works on the same run, its first fetch is at offset O, and when
\* it completes the wallet's hashes are those of the whole upstream list
\* (what an uninterrupted run stores).
C4_ResumesAtCheckpoint ==
    \A t, u \in Tasks :
        (/\ NextInvocation(t, u)
         /\ task[t].pc = "killed"
         /\ task[t].run # 0
         /\ task[u].firstFetch # None)
        => /\ task[u].run = task[t].run
           /\ task[u].firstFetch = task[t].killOffset
           /\ (task[u].pc = "done" =>
                 TxHashes(task[u].wallet_id)
                     = UpstreamHashes(wallets[task[u].wallet_id].address))

\* An invocation killed after the checkpoint PAGE_SIZE was resumed there
\* and has completed.
C4_Witness ==
    \E t, u \in Tasks :
        /\ NextInvocation(t, u)
        /\ task[t].pc = "killed"
        /\ task[t].killOffset = PAGE_SIZE
        /\ task[u].pc = "done"
        /\ task[u].firstFetch = PAGE_SIZE
        /\ Len(transactions) = PAGE_SIZE + ShortLen

C6_FailureKeepsCommitted ==
    [][\A t \in Tasks :
          (task[t].pc = "except" /\ task'[t].pc = "raised") =>
              /\ transactions' = transactions
              /\ wallets' = wallets
              /\ syncruns'[task[t].run].current_offset = task[t].offset
              /\ syncruns[task[t].run].current_offset = task[t].offset
      ]_vars

\* The commit of the second page failed: the first page is still stored
\* and the second is not.
C6_Witness ==
    \E t \in Tasks :
        /\ task[t].pc = "raised"
        /\ ~task[t].exhausted
        /\ syncruns[task[t].run].current_offset = PAGE_SIZE
        /\ upstream[wallets[task[t].wallet_id].address].period = 2 * PAGE_SIZE
        /\ Len(transactions) = PAGE_SIZE

\* C7: with one invocation at a time, the commit that completes a run
\* leaves the wallet's balance_sat equal to the balance of the last page
\* the invocation fetched.
C7_BalanceOfLastPage ==
    [][\A t \in Tasks :
          (task[t].pc = "complete" /\ task'[t].pc = "done") =>
              wallets'[task[t].wallet_id].balance_sat = task[t].lastBal
      ]_vars

\* A run whose only page had no hashes has completed and the wallet has
\* that page's balance.
C7_Witness ==
    \E t \in Tasks :
        /\ task[t].pc = "done"
        /\ task[t].run # 0
        /\ syncruns[task[t].run].current_offset = 0
        /\ wallets[task[t].wallet_id].balance_sat = MaxBalance

\* C8: a call of _request_with_retry issues at most MAX_RETRIES GETs,
\* 429s and failures counted alike; when none of them succeeded no page
\* is returned (the call raised), and the run of an invocation that
\* re-raised it is stored as error.
C8_RetryBudget ==
    \A t \in Tasks :
        /\ task[t].gets <= MAX_RETRIES
        /\ (task[t].gets > 0 /\ task[t].fails = task[t].gets) =>
               (task[t].pc = "except" /\ task[t].exhausted)
        /\ (task[t].pc = "raised" /\ task[t].exhausted) =>
               syncruns[task[t].run].status = "error"

\* A call has raised after MAX_RETRIES GETs none of which succeeded.
C8_Witness ==
    \E t \in Tasks :
        /\ task[t].pc = "except"
        /\ task[t].gets = MAX_RETRIES
        /\ task[t].fails = MAX_RETRIES

\* C9: a call whose attempts all fail, none with a 429, sleeps 2^k seconds
\* after its k-th failed attempt for k = 1..4 and not after the fifth:
\* 2+4+8+16 = 30 seconds in all.
C9_BackoffTotalIs30 ==
    (/\ call.state = "done"
     /\ \A j \in DOMAIN call.script : call.script[j] = "fail")
    => call.result.sleeps = <<2, 4, 8, 16>>

\* C10: when every call of _request_with_retry returns a page and nothing
\* else fails, an invocation that has entered the page loop ends with its
\* run completed (the upstream list is finite, so a page of fewer than
\* PAGE_SIZE hashes comes).
C10_PageLoopTerminates ==
    \A t \in Tasks :
        (task[t].pc = "fetch") ~>
            (task[t].pc = "done" /\ RunStatus(t) = "completed")

\* A run of a full page and a short page has completed.
C10_Witness ==
    \E r \in 1..Len(syncruns) :
        /\ syncruns[r].status = "completed"
        /\ syncruns[r].current_offset = 2 * PAGE_SIZE

\* C11: an invocation that was answered with a body that is not a
\* well-formed page (not JSON, or without the data entry, the balance or
\* the transactions list) ends with its run stored as error with a
\* non-empty message, never as completed.
C11_MalformedPayloadFails ==
    \A t \in Tasks :
        (task[t].payload # "page" /\ task[t].pc \in {"done", "raised"}) =>
            /\ RunStatus(t) = "error"
            /\ syncruns[task[t].run].error_message > 0

\* C12: the step of an invocation whose wallet_id has no Wallet row ends
\* the invocation by a return, with no run, no fetch and every row of
\* wallet, sync_run and transaction as it was.
C12_MissingWalletIsNoOp ==
    [][\A t \in Tasks :
          (/\ task[t].pc = "queued"
           /\ task[t].wallet_id \notin 1..Len(wallets)
           /\ task'[t].pc # "queued") =>
              /\ task'[t].pc = "done"
              /\ task'[t].run = 0
              /\ task'[t].firstFetch = None
              /\ task'[t].gets = 0
              /\ wallets' = wallets
              /\ syncruns' = syncruns
              /\ transactions' = transactions
      ]_vars

\* An invocation for a missing wallet has returned while the store holds
\* a wallet with a completed run.
C12_Witness ==
    \E t \in Tasks :
        /\ task[t].pc = "done"
        /\ task[t].run = 0
        /\ task[t].wallet_id \notin 1..Len(wallets)
        /\ Len(transactions) > 0

\* C13: with one invocation at a time, after an invocation has ended its
\* run in error at the stored offset O, the first fetch of the next
\* invocation for the wallet is at offset O.
C13_RetryFetchesTailOnly ==
    \A t, u \in Tasks :
        (/\ NextInvocation(t, u)
         /\ task[t].pc = "raised"
         /\ task[u].firstFetch # None)
        => task[u].firstFetch = syncruns[task[t].run].current_offset

\* C14: under any interleaving of invocations, no step lowers the stored
\* current_offset of a run, and every commit of a page moves the stored
\* current_offset of its run from O to exactly O + PAGE_SIZE.
C14_OffsetAdvancesByPage ==
    [][/\ \A r \in 1..Len(syncruns) :
             syncruns'[r].current_offset >= syncruns[r].current_offset
       /\ \A t \in Tasks :
             (task[t].pc = "commit" /\ task'[t].pc \in {"fetch", "complete"})
             => syncruns'[task[t].run].current_offset
                    = syncruns[task[t].run].current_offset + PAGE_SIZE
      ]_vars

\* C15: with one invocation at a time and worker kills and store failures
\* at any step, in every stored state every upstream hash at a list
\* position below the stored current_offset of a run has a Transaction
\* row of the run's wallet.
C15_CheckpointConsistent ==
    \A r \in 1..Len(syncruns) :
        LET w == syncruns[r].wallet_id
            a == wallets[w].address
        IN \A p \in 1..Min(syncruns[r].current_offset, upstream[a].len) :
               RowsFor(w, UpstreamHash(a, p)) # {}

\* A worker was killed while it worked on the second page: the first
\* page's offset and rows are stored, the second page's are not.
C15_Witness ==
    \E t \in Tasks :
        /\ task[t].pc = "killed"
        /\ task[t].run # 0
        /\ task[t].firstFetch = 0
        /\ syncruns[task[t].run].status = "in_progress"
        /\ syncruns[task[t].run].current_offset = PAGE_SIZE
        /\ upstream[wallets[task[t].wallet_id].address].len > PAGE_SIZE
        /\ Len(transactions) = PAGE_SIZE

\* C16: with one invocation at a time, an invocation whose wallet exists
\* resumes the wallet's latest run if and only if there is one and it is
\* in_progress; otherwise it goes on to create a run, the created row has
\* current_offset 0 and status in_progress, and the run an invocation
\* works on is stored before its first fetch.
C16_ResumeOrCreate ==
    [][\A t \in Tasks :
          LET w == task[t].wallet_id
              resumable == {r \in LatestRuns(w) :
                               syncruns[r].status = "in_progress"}
          IN
          /\ (/\ task[t].pc = "queued"
              /\ w \in 1..Len(wallets)
              /\ task'[t].pc # "queued") =>
                 /\ syncruns' = syncruns
                 /\ IF resumable # {}
                    THEN /\ task'[t].pc = "fetch"
                         /\ task'[t].run \in resumable
                    ELSE task'[t].pc = "create"
          /\ (task[t].pc = "create" /\ task'[t].pc = "fetch") =>
                 /\ Len(syncruns') = Len(syncruns) + 1
                 /\ task'[t].run = Len(syncruns')
                 /\ task'[t].firstFetch = None
                 /\ syncruns'[Len(syncruns')].wallet_id = w
                 /\ syncruns'[Len(syncruns')].current_offset = 0
                 /\ syncruns'[Len(syncruns')].status = "in_progress"
          /\ (task[t].firstFetch = None /\ task'[t].firstFetch # None) =>
                 /\ task[t].run \in 1..Len(syncruns)
                 /\ syncruns[task[t].run].wallet_id = w
                 /\ syncruns[task[t].run].status = "in_progress"
      ]_vars

\* After a run that ended in error a second run was created and its
\* invocation has fetched at offset 0.
C16_Witness ==
    /\ Len(syncruns) = 2
    /\ syncruns[1].status = "error"
    /\ \E t, u \in Tasks :
          /\ task[t].pc = "raised" /\ task[t].run = 1
          /\ task[u].run = 2 /\ task[u].firstFetch = 0

C18_EndedIffTerminal ==
    \A r \in 1..Len(syncruns) :
        /\ syncruns[r].ended_at <=> syncruns[r].status \in {"completed", "error"}
        /\ syncruns[r].status = "completed" =>
               wallets[syncruns[r].wallet_id].last_synced_at

\* A completed run with an end time and an in_progress run without one.
C18_Witness ==
    \E r, q \in 1..Len(syncruns) :
        /\ syncruns[r].status = "completed" /\ syncruns[r].ended_at
        /\ syncruns[q].status = "in_progress" /\ ~syncruns[q].ended_at

\* C19: under any interleaving of invocations, once the stored status of
\* a run is completed or error no step changes the run's status,
\* current_offset or ended_at.
C19_TerminalIsAbsorbing ==
    [][\A r \in 1..Len(syncruns) :
          syncruns[r].status \in {"completed", "error"} =>
              /\ syncruns'[r].status = syncruns[r].status
              /\ syncruns'[r].current_offset = syncruns[r].current_offset
              /\ syncruns'[r].ended_at = syncruns[r].ended_at
      ]_vars

\* C20: with one invocation at a time (worker kills and later restarts
\* included), in every stored state a wallet has at most one run with
\* is_latest, that run is the wallet's most recently created run, and
\* every in_progress run of the wallet is that run.
C20_OneLatestRun ==
    \A w \in 1..Len(wallets) :
        /\ Cardinality(LatestRuns(w)) <= 1
        /\ \A r \in LatestRuns(w) :
               \A q \in 1..Len(syncruns) :
                   syncruns[q].wallet_id = w => q <= r
        /\ RunsWithStatus(w, "in_progress") \subseteq LatestRuns(w)

\* A wallet has two runs: the first has ended and is not the latest, the
\* second is the latest and in_progress.
C20_Witness ==
    \E w \in 1..Len(wallets) :
        /\ Len(syncruns) = 2
        /\ syncruns[1].wallet_id = w /\ ~syncruns[1].is_latest
        /\ syncruns[1].status = "error"
        /\ LatestRuns(w) = {2}
        /\ syncruns[2].status = "in_progress"

====
